---- MODULE Spec2Model ----
(***************************************************************************)
(* Model of wqi_app.py: the WQI scoring functions (calculate_sub_index,    *)
(* calculate_wqi, classify_wqi) over the three shipped parameter tables,   *)
(* and the Streamlit script that calls them for a submitted form and for   *)
(* an uploaded CSV table.                                                  *)
(*                                                                         *)
(* Numbers.  Python floats are modelled as exact rationals.                *)
(*   - a measured value, a standard, low and high are integers in          *)
(*     thousandths (0.3 NTU is 300, pH 9.5 is 9500);                       *)
(*   - a weight is an integer in units of 10^-8 (0.119593 is 11959300);    *)
(*   - a sub-index is a reduced fraction num/den;                          *)
(*   - a score is num/(den * 10^8) with num an unbounded natural held as   *)
(*     base-10^4 limbs, least significant first, since the products        *)
(*     sub_index * weight exceed 32 bits.                                  *)
(* Parameter names are the source's with the non-ASCII letters of the      *)
(* units spelled out (micro as u, the degree sign as deg).                 *)
(***************************************************************************)
EXTENDS Integers, Sequences, FiniteSets, TLC

\* --------------------------------------------------------------- bounds
\* Rows of an uploaded CSV table: 1..MaxRows.
MaxRows == 2
\* Form fields the user changes from their defaults before submitting.
MaxEdits == 1

\* ------------------------------------------------ the parameter tables
SPRINGS_PARAMS ==
  <<
    [name |-> "Aluminum [ug/l Al]", config |-> [weight |-> 182800, standard |-> 200000]],
    [name |-> "Ammonium [mg/l NH4]", config |-> [weight |-> 4047200, standard |-> 500]],
    [name |-> "Arsenic [ug/l As]", config |-> [weight |-> 917400, standard |-> 10000]],
    [name |-> "Cadmium [ug/l Cd]", config |-> [weight |-> 3367600, standard |-> 5000]],
    [name |-> "Chlorides [mg/l Cl]", config |-> [weight |-> 3874400, standard |-> 250000]],
    [name |-> "Chlorites [ug/l ClO2]", config |-> [weight |-> 1883200, standard |-> 700000]],
    [name |-> "Copper [mg/l Cu]", config |-> [weight |-> 11959300, standard |-> 2000]],
    [name |-> "Fluorides [mg/l F]", config |-> [weight |-> 1348000, standard |-> 1500]],
    [name |-> "Hardness [degF]", config |-> [weight |-> 10014800, standard |-> 50000]],
    [name |-> "Iron [ug/l Fe]", config |-> [weight |-> 4098200, standard |-> 200000]],
    [name |-> "Lead [ug/l Pb]", config |-> [weight |-> 9685300, standard |-> 10000]],
    [name |-> "Magnesium [mg/l Mg]", config |-> [weight |-> 11142300, standard |-> 30000]],
    [name |-> "Manganese [ug/l Mn]", config |-> [weight |-> 4212000, standard |-> 50000]],
    [name |-> "Nitrates [mg/l NO3]", config |-> [weight |-> 1906500, standard |-> 50000]],
    [name |-> "pH", config |-> [weight |-> 7659900, low |-> 6500, high |-> 9500]],
    [name |-> "Sodium [mg/l Na]", config |-> [weight |-> 1642800, standard |-> 200000]],
    [name |-> "Sulfates [mg/l SO4]", config |-> [weight |-> 7895500, standard |-> 250000]],
    [name |-> "Turbidity [NTU]", config |-> [weight |-> 4948500, standard |-> 300]],
    [name |-> "Vanadium [ug/l V]", config |-> [weight |-> 1056100, standard |-> 140000]],
    [name |-> "Zinc [ug/l Zn]", config |-> [weight |-> 8158200, standard |-> 5000000]]
  >>

WELLS_PARAMS ==
  <<
    [name |-> "Aluminum [ug/l Al]", config |-> [weight |-> 8524457, standard |-> 200000]],
    [name |-> "Ammonium [mg/l NH4]", config |-> [weight |-> 472345, standard |-> 500]],
    [name |-> "Arsenic [ug/l As]", config |-> [weight |-> 2818904, standard |-> 10000]],
    [name |-> "Cadmium [ug/l Cd]", config |-> [weight |-> 7304108, standard |-> 5000]],
    [name |-> "Chlorides [mg/l Cl]", config |-> [weight |-> 5636716, standard |-> 250000]],
    [name |-> "Copper [mg/l Cu]", config |-> [weight |-> 5467830, standard |-> 2000]],
    [name |-> "Fluorides [mg/l F]", config |-> [weight |-> 8794153, standard |-> 1500]],
    [name |-> "Hardness [degF]", config |-> [weight |-> 5360424, standard |-> 50000]],
    [name |-> "Iron [ug/l Fe]", config |-> [weight |-> 7653616, standard |-> 200000]],
    [name |-> "Lead [ug/l Pb]", config |-> [weight |-> 15238569, standard |-> 10000]],
    [name |-> "Magnesium [mg/l Mg]", config |-> [weight |-> 6770434, standard |-> 30000]],
    [name |-> "Manganese [ug/l Mn]", config |-> [weight |-> 4199309, standard |-> 50000]],
    [name |-> "Nitrates [mg/l NO3]", config |-> [weight |-> 2516202, standard |-> 50000]],
    [name |-> "pH", config |-> [weight |-> 3543887, low |-> 6500, high |-> 9500]],
    [name |-> "Sodium [mg/l Na]", config |-> [weight |-> 7688634, standard |-> 200000]],
    [name |-> "Sulfates [mg/l SO4]", config |-> [weight |-> 4959354, standard |-> 250000]],
    [name |-> "Turbidity [NTU]", config |-> [weight |-> 305360, standard |-> 300]],
    [name |-> "Vanadium [ug/l V]", config |-> [weight |-> 286481, standard |-> 140000]],
    [name |-> "Zinc [ug/l Zn]", config |-> [weight |-> 2459217, standard |-> 5000000]]
  >>

LAKES_PARAMS ==
  <<
    [name |-> "Aluminum [ug/l Al]", config |-> [weight |-> 13732495, standard |-> 200000]],
    [name |-> "Ammonium [mg/l NH4]", config |-> [weight |-> 8499825, standard |-> 500]],
    [name |-> "Arsenic [ug/l As]", config |-> [weight |-> 785124, standard |-> 10000]],
    [name |-> "Cadmium [ug/l Cd]", config |-> [weight |-> 3023614, standard |-> 5000]],
    [name |-> "Calcium [mg/l Ca]", config |-> [weight |-> 375850, standard |-> 300000]],
    [name |-> "Chlorides [mg/l Cl]", config |-> [weight |-> 12006373, standard |-> 250000]],
    [name |-> "Conductivity at 20degC [uS/cm]", config |-> [weight |-> 10301697, standard |-> 2500000]],
    [name |-> "Copper [mg/l Cu]", config |-> [weight |-> 5903513, standard |-> 2000]],
    [name |-> "Fluorides [mg/l F]", config |-> [weight |-> 5134627, standard |-> 1500]],
    [name |-> "Hardness [degF]", config |-> [weight |-> 831767, standard |-> 50000]],
    [name |-> "Iron [ug/l Fe]", config |-> [weight |-> 2670118, standard |-> 200000]],
    [name |-> "Lead [ug/l Pb]", config |-> [weight |-> 2825393, standard |-> 10000]],
    [name |-> "Manganese [ug/l Mn]", config |-> [weight |-> 192557, standard |-> 50000]],
    [name |-> "Nitrates [mg/l NO3]", config |-> [weight |-> 2986598, standard |-> 50000]],
    [name |-> "pH", config |-> [weight |-> 3950439, low |-> 6500, high |-> 9500]],
    [name |-> "Sodium [mg/l Na]", config |-> [weight |-> 8998053, standard |-> 200000]],
    [name |-> "Sulfates [mg/l SO4]", config |-> [weight |-> 2081114, standard |-> 250000]],
    [name |-> "Turbidity [NTU]", config |-> [weight |-> 8237665, standard |-> 300]],
    [name |-> "Vanadium [ug/l V]", config |-> [weight |-> 3977873, standard |-> 140000]],
    [name |-> "Zinc [ug/l Zn]", config |-> [weight |-> 3485305, standard |-> 5000000]]
  >>

\* ------------------------------------------------------------- numbers
Milli == 10^3
WeightScale == 10^8
Base == 10^4

Abs(x) == IF x < 0 THEN -x ELSE x

RECURSIVE GCD(_, _)
GCD(a, b) == IF b = 0 THEN a ELSE GCD(b, a % b)

LCM(a, b) == (a \div GCD(a, b)) * b

\* A natural number as limbs.
RECURSIVE BigFromInt(_)
BigFromInt(n) == IF n = 0 THEN <<>> ELSE <<n % Base>> \o BigFromInt(n \div Base)

RECURSIVE BigAddC(_, _, _)
BigAddC(a, b, carry) ==
  IF a = <<>> /\ b = <<>> THEN BigFromInt(carry)
  ELSE LET x == IF a = <<>> THEN 0 ELSE Head(a)
           y == IF b = <<>> THEN 0 ELSE Head(b)
           s == x + y + carry
       IN <<s % Base>> \o BigAddC(IF a = <<>> THEN a ELSE Tail(a),
                                  IF b = <<>> THEN b ELSE Tail(b),
                                  s \div Base)

BigAdd(a, b) == BigAddC(a, b, 0)

\* a * m for a multiplier m below 2 * 10^5 (a limb times m stays in 32 bits).
RECURSIVE BigMulC(_, _, _)
BigMulC(a, m, carry) ==
  IF a = <<>> THEN BigFromInt(carry)
  ELSE LET p == Head(a) * m + carry
       IN <<p % Base>> \o BigMulC(Tail(a), m, p \div Base)

BigMulSmall(a, m) == IF m = 0 THEN <<>> ELSE BigMulC(a, m, 0)

\* a * b, limb by limb.
BigShift(a) == IF a = <<>> THEN a ELSE <<0>> \o a

RECURSIVE BigMul(_, _)
BigMul(a, b) ==
  IF b = <<>> THEN <<>>
  ELSE BigAdd(BigMulSmall(a, Head(b)), BigShift(BigMul(a, Tail(b))))

\* a < b, comparing from the most significant limb.
RECURSIVE BigLessSameLen(_, _, _)
BigLessSameLen(a, b, i) ==
  IF i = 0 THEN FALSE
  ELSE IF a[i] # b[i] THEN a[i] < b[i]
  ELSE BigLessSameLen(a, b, i - 1)

BigLess(a, b) ==
  IF Len(a) # Len(b) THEN Len(a) < Len(b) ELSE BigLessSameLen(a, b, Len(a))

\* Values a cell, a sub-index or a score can take.
NaN == [kind |-> "nan"]
None == [kind |-> "none"]
Num(v) == [kind |-> "num", v |-> v]
Raised(exc) == [kind |-> "error", exc |-> exc]

\* The fraction n/d (d # 0) in lowest terms with a positive denominator.
Frac(n, d) ==
  LET g == GCD(Abs(n), Abs(d))
      s == IF d < 0 THEN -1 ELSE 1
  IN [kind |-> "num", num |-> s * (n \div g), den |-> s * (d \div g)]

\* x / y of two integers in thousandths, then * 100 as the source writes it.
RatioTimes100(x, y) ==
  LET r == Frac(x, y) IN Frac(r.num * 100, r.den)

FracAbs(f) == [f EXCEPT !.num = Abs(f.num)]

\* A score num/(den * 10^8).
ScoreZero == [kind |-> "num", num |-> <<>>, den |-> 1]

\* wqi + sub_index * weight, for a sub-index f >= 0 and a weight w in 10^-8.
ScoreAddProduct(wqi, f, w) ==
  LET d == LCM(wqi.den, f.den)
  IN [kind |-> "num",
      num |-> BigAdd(BigMulSmall(wqi.num, d \div wqi.den),
                     BigMulSmall(BigFromInt(w), f.num * (d \div f.den))),
      den |-> d]

\* The whole number t as a numerator over den * 10^8.
ScoreOfInt(t, den) == BigMulSmall(BigMulSmall(BigFromInt(WeightScale), den), t)

\* wqi < t and wqi <= t for a whole number t.
ScoreLt(wqi, t) == BigLess(wqi.num, ScoreOfInt(t, wqi.den))
ScoreLe(wqi, t) == ~BigLess(ScoreOfInt(t, wqi.den), wqi.num)

\* Two scores are the same number.
ScoreEq(a, b) ==
  /\ a.kind = b.kind
  /\ a.kind = "num" => BigMulSmall(a.num, b.den) = BigMulSmall(b.num, a.den)

\* ------------------------------------------- WQI calculation functions
isna(value) == value.kind = "nan"

\* calculate_sub_index with the result capped at 100.
calculate_sub_index_clamped(value, param, param_config) ==
  IF isna(value) THEN None
  ELSE LET f == IF param = "pH"
                THEN FracAbs(RatioTimes100(value.v - 7 * Milli, param_config.high - 7 * Milli))
                ELSE RatioTimes100(value.v, param_config.standard)
       IN IF f.num > 100 * f.den THEN Frac(100, 1) ELSE f

\* calculate_sub_index taking the pH branch for the name "PH".
calculate_sub_index_upper(value, param, param_config) ==
  IF isna(value) THEN None
  ELSE IF param = "PH"
    THEN FracAbs(RatioTimes100(value.v - 7 * Milli, param_config.high - 7 * Milli))
    ELSE IF "standard" \notin DOMAIN param_config THEN Raised("KeyError")
         ELSE RatioTimes100(value.v, param_config.standard)

\* calculate_sub_index(value, param, param_config).  A dictionary lookup of a
\* key the entry lacks raises KeyError; a division by zero raises
\* ZeroDivisionError.
calculate_sub_index(value, param, param_config) ==
  IF isna(value) THEN None
  ELSE IF param = "pH"
    THEN IF "high" \notin DOMAIN param_config THEN Raised("KeyError")
         ELSE IF param_config.high - 7 * Milli = 0 THEN Raised("ZeroDivisionError")
         ELSE FracAbs(RatioTimes100(value.v - 7 * Milli, param_config.high - 7 * Milli))
    ELSE IF "standard" \notin DOMAIN param_config THEN Raised("KeyError")
         ELSE IF param_config.standard = 0 THEN Raised("ZeroDivisionError")
         ELSE RatioTimes100(value.v, param_config.standard)

\* classify_wqi with the first test written <= 50.
classify_wqi_inclusive(wqi) ==
  IF ScoreLe(wqi, 50) THEN "Excellent water"
  ELSE IF ScoreLe(wqi, 100) THEN "Good water"
  ELSE IF ScoreLe(wqi, 200) THEN "Poor water"
  ELSE IF ScoreLe(wqi, 300) THEN "Very poor water"
  ELSE "Unsuitable for drinking"

\* classify_wqi(wqi): the first test that passes decides.
classify_wqi(wqi) ==
  IF ScoreLt(wqi, 50) THEN "Excellent water"
  ELSE IF ScoreLe(wqi, 100) THEN "Good water"
  ELSE IF ScoreLe(wqi, 200) THEN "Poor water"
  ELSE IF ScoreLe(wqi, 300) THEN "Very poor water"
  ELSE "Unsuitable for drinking"

\* One iteration that adds the sub-index without its weight.
wqi_step_unweighted(acc, data, param, config) ==
  IF acc.wqi.kind = "num" /\ param \in DOMAIN data /\ ~isna(data[param])
  THEN [wqi |-> ScoreAddProduct(acc.wqi, calculate_sub_index(data[param], param, config),
                                WeightScale),
        total_weight |-> acc.total_weight + config.weight]
  ELSE acc

\* One iteration of the loop of calculate_wqi, for the entry (param, config),
\* from the running wqi and total_weight in acc.  An exception raised by
\* calculate_sub_index ends the function: later iterations keep it.
wqi_step(acc, data, param, config) ==
  IF acc.wqi.kind = "error" THEN acc
  ELSE IF param \in DOMAIN data /\ ~isna(data[param])
  THEN LET sub_index == calculate_sub_index(data[param], param, config)
       IN IF sub_index.kind = "error"
          THEN [wqi |-> sub_index, total_weight |-> acc.total_weight]
          ELSE IF sub_index # None
          THEN [wqi |-> ScoreAddProduct(acc.wqi, sub_index, config.weight),
                total_weight |-> acc.total_weight + config.weight]
          ELSE acc
  ELSE acc

\* The loop over params.items(): wqi and total_weight after the first i entries.
RECURSIVE wqi_loop(_, _, _)
wqi_loop(data, params, i) ==
  IF i = 0 THEN [wqi |-> ScoreZero, total_weight |-> 0]
  ELSE wqi_step(wqi_loop(data, params, i - 1), data, params[i].name, params[i].config)

\* calculate_wqi testing the score, not the weight total, for "no data".
calculate_wqi_zero_score(data, params) ==
  LET r == wqi_loop(data, params, Len(params))
  IN IF r.wqi.num = <<>> THEN <<None, "No valid data provided">>
     ELSE <<r.wqi, classify_wqi(r.wqi)>>

\* calculate_wqi(data, params): the pair (wqi, class).
calculate_wqi(data, params) ==
  LET r == wqi_loop(data, params, Len(params))
  IN IF r.wqi.kind = "error" THEN <<r.wqi, "exception">>
     ELSE IF r.total_weight = 0 THEN <<None, "No valid data provided">>
     ELSE <<r.wqi, classify_wqi(r.wqi)>>

\* ------------------------------------------------------- program state
VARIABLES
  param_tables,         \* the module globals SPRINGS_PARAMS, WELLS_PARAMS, LAKES_PARAMS
  water_body,     \* the sidebar selectbox
  uploaded_file,  \* the file uploader of the batch tab
  tab1,           \* what the single-sample tab rendered in the last script run
  tab2,           \* what the batch tab rendered in the last script run
  call            \* a direct call of a scoring function: its input and result

vars == <<param_tables, water_body, uploaded_file, tab1, tab2, call>>

WaterBodies == {"Springs", "Wells", "Lakes"}

Names(params) == {params[i].name : i \in 1..Len(params)}

\* PARAMETERS, chosen by the selected water body.
SelectParameters(wb, t) ==
  IF wb = "Springs" THEN t.Springs
  ELSE IF wb = "Wells" THEN t.Wells
  ELSE t.Lakes

\* ---------------------------------------------------- single-sample tab
location == "Sample_001"

\* The values of the form's number inputs: each field holds its default (7.0
\* for pH, 0.0 for the others) unless the user edited it.
FormDefault(param) == IF param = "pH" THEN Num(7 * Milli) ELSE Num(0)

FormData(params, edits) ==
  [param \in DOMAIN edits |-> Num(edits[param])]
    @@ [param \in Names(params) |-> FormDefault(param)]

NoData == <<>>

\* The single-sample tab of one script run.
SingleSampleTab(submit_button, data, PARAMETERS) ==
  IF ~submit_button
  THEN [shown |-> "form", data |-> NoData, wqi |-> None, class |-> "",
        chart |-> <<>>, csv |-> <<>>]
  ELSE LET r == calculate_wqi(data, PARAMETERS)
           wqi == r[1]
           wqi_class == r[2]
       IN IF wqi = None
          THEN [shown |-> "error", data |-> data, wqi |-> wqi, class |-> wqi_class,
                chart |-> <<>>, csv |-> <<>>]
          ELSE [shown |-> "success", data |-> data, wqi |-> wqi, class |-> wqi_class,
                chart |-> <<[x |-> location, y |-> wqi]>>,
                csv |-> <<[Location |-> location, WQI |-> wqi,
                           Class |-> wqi_class, data |-> data]>>]

\* ------------------------------------------------------------ batch tab
NoFile == [columns |-> {}, rows |-> <<>>, present |-> FALSE]

\* pd.read_csv: the table's columns and its rows, each row a mapping from
\* the columns to cells.
read_csv(file) == [columns |-> file.columns, rows |-> file.rows]

\* The loop filling the missing columns with 0.0.
AddMissingColumns_zero(df, params) ==
  LET missing == Names(params) \ df.columns
      zero_cells == [param \in missing |-> Num(0)]
  IN [columns |-> df.columns \cup missing,
      rows |-> [i \in 1..Len(df.rows) |-> df.rows[i] @@ zero_cells]]

\* The loop over PARAMETERS.keys(): every parameter that is no column of df
\* becomes a column holding np.nan in every row; the columns df has are kept.
AddMissingColumns(df, params) ==
  LET missing == Names(params) \ df.columns
      nan_cells == [param \in missing |-> NaN]
  IN [columns |-> df.columns \cup missing,
      rows |-> [i \in 1..Len(df.rows) |-> df.rows[i] @@ nan_cells]]

\* apply scoring the first row for every row.
RECURSIVE apply_rows_first(_, _, _)
apply_rows_first(rows, PARAMETERS, i) ==
  IF i > Len(rows) THEN <<>>
  ELSE <<calculate_wqi(rows[1], PARAMETERS)>> \o apply_rows_first(rows, PARAMETERS, i + 1)

\* df.apply(lambda row: calculate_wqi(row, PARAMETERS), axis=1): the rows in
\* order from row i on, one result each.
RECURSIVE apply_rows(_, _, _)
apply_rows(rows, PARAMETERS, i) ==
  IF i > Len(rows) THEN <<>>
  ELSE <<calculate_wqi(rows[i], PARAMETERS)>> \o apply_rows(rows, PARAMETERS, i + 1)

\* df[['WQI', 'Class']] = results.
AssignResults(df, results) ==
  [i \in 1..Len(df.rows) |->
     [cells |-> df.rows[i], WQI |-> results[i][1], Class |-> results[i][2]]]

\* The bars sns.barplot draws from df: one per row at x = df.index; a row whose
\* WQI is missing has no bar.
RECURSIVE Bars(_, _)
Bars(df, i) ==
  IF i > Len(df) THEN <<>>
  ELSE (IF df[i].WQI = None THEN <<>>
        ELSE <<[x |-> i, y |-> df[i].WQI, hue |-> df[i].Class]>>)
       \o Bars(df, i + 1)

\* df.to_csv(index=False): every row of df is written, in order; the file is
\* held as the positions of the rows of df it contains.
WrittenRows(df) == [i \in 1..Len(df) |-> i]

\* The batch tab of one script run.
BatchTab(file, PARAMETERS) ==
  IF ~file.present
  THEN [shown |-> "uploader", df |-> <<>>, chart |-> <<>>, csv |-> <<>>]
  ELSE LET df0 == AddMissingColumns(read_csv(file), PARAMETERS)
           results == apply_rows(df0.rows, PARAMETERS, 1)
           df == AssignResults(df0, results)
       IN [shown |-> "results", df |-> df, chart |-> Bars(df, 1),
           csv |-> WrittenRows(df)]

\* ------------------------------------------------------ one script run
\* A script run that keeps the batch results of the previous run while the
\* same file stays uploaded.
RunScript_cached(wb, submit_button, edits, file) ==
  LET PARAMETERS == SelectParameters(wb, param_tables)
  IN /\ water_body' = wb
     /\ uploaded_file' = file
     /\ tab1' = SingleSampleTab(submit_button, FormData(PARAMETERS, edits), PARAMETERS)
     /\ tab2' = IF file.present /\ file = uploaded_file THEN tab2
                ELSE BatchTab(file, PARAMETERS)
     /\ UNCHANGED <<param_tables, call>>

\* Streamlit runs the script top to bottom after every interaction: it picks
\* PARAMETERS, then renders both tabs.
RunScript(wb, submit_button, edits, file) ==
  LET PARAMETERS == SelectParameters(wb, param_tables)
  IN /\ water_body' = wb
     /\ uploaded_file' = file
     /\ tab1' = SingleSampleTab(submit_button, FormData(PARAMETERS, edits), PARAMETERS)
     /\ tab2' = BatchTab(file, PARAMETERS)
     /\ UNCHANGED <<param_tables, call>>

\* ------------------------------------------------------------- inputs
\* Fields the user edits, and the values entered (thousandths).
FormFields == {"pH", "Copper [mg/l Cu]", "Turbidity [NTU]"}
FieldValue(param) ==
  IF param = "pH" THEN 8200
  ELSE IF param = "Copper [mg/l Cu]" THEN 20000
  ELSE 100

Edits(params) ==
  {[param \in S |-> FieldValue(param)] :
     S \in {T \in SUBSET (FormFields \cap Names(params)) : Cardinality(T) <= MaxEdits}}

\* Uploaded tables: a column layout, and 1..MaxRows data rows whose cells are
\* missing or hold a value.  "Sample" is a column no table knows, and
\* "Chlorites [ug/l ClO2]" one only SPRINGS_PARAMS knows.
Str(s) == [kind |-> "str", s |-> s]
ColumnLayouts ==
  { {"pH"},
    {"pH", "Copper [mg/l Cu]"},
    {"Chlorites [ug/l ClO2]", "Sample"},
    {"Sample"} }
CellValues(column) ==
  IF column = "pH" THEN {NaN, Num(8200)}
  ELSE IF column = "Copper [mg/l Cu]" THEN {NaN, Num(2000)}
  ELSE IF column = "Chlorites [ug/l ClO2]" THEN {NaN, Num(1400000)}
  ELSE {Str("A")}
AllCells == UNION {CellValues(c) : c \in UNION ColumnLayouts}
RowsOver(columns) ==
  {r \in [columns -> AllCells] : \A c \in columns : r[c] \in CellValues(c)}
Files ==
  {[columns |-> cs, rows |-> rs, present |-> TRUE] :
     <<cs, rs>> \in UNION {{<<cs, rs>> : rs \in UNION {[1..n -> RowsOver(cs)] : n \in 1..MaxRows}} :
                             cs \in ColumnLayouts}}

\* ------------------------------------------------------------ actions
Idle == [fn |-> "none"]

Init ==
  /\ param_tables = [Springs |-> SPRINGS_PARAMS, Wells |-> WELLS_PARAMS, Lakes |-> LAKES_PARAMS]
  /\ water_body = "Springs"
  /\ uploaded_file = NoFile
  /\ tab1 = SingleSampleTab(FALSE, NoData, SPRINGS_PARAMS)
  /\ tab2 = BatchTab(NoFile, SPRINGS_PARAMS)
  /\ call = Idle

\* The user picks a water body in the sidebar.
SelectWaterBody ==
  \E wb \in WaterBodies \ {water_body} : RunScript(wb, FALSE, <<>>, uploaded_file)

\* The user presses "Calculate WQI" on the form.
SubmitForm ==
  \E edits \in Edits(SelectParameters(water_body, param_tables)) :
    RunScript(water_body, TRUE, edits, uploaded_file)

\* The user uploads a CSV file into the empty uploader (replacing a file is
\* removing it and uploading the other).
UploadFile ==
  /\ ~uploaded_file.present
  /\ \E file \in Files : RunScript(water_body, FALSE, <<>>, file)

\* The user removes the uploaded file.
RemoveFile ==
  /\ uploaded_file.present
  /\ RunScript(water_body, FALSE, <<>>, NoFile)

Next == SelectWaterBody \/ SubmitForm \/ UploadFile \/ RemoveFile

Spec == Init /\ [][Next]_vars

\* ------------------------------------- direct calls of the functions
\* Scores around the class boundaries, in thousandths.
Near == 2
Thresholds == {0, 50, 100, 200, 300, 400}
ClassifyInputs ==
  {k \in {t * Milli + e : t \in Thresholds, e \in (-Near)..Near} : k >= 0}

\* The score k/1000 held over the denominator den.
ScoreOfMilli(k, den) ==
  [kind |-> "num",
   num |-> BigMulSmall(BigMulSmall(BigFromInt(k), WeightScale \div Milli), den),
   den |-> den]

\* Values for a table entry: missing, 0, 0.1, and the multiples of half the
\* standard up to MaxHalves halves; for pH, points of the 0..14 scale.
MaxHalves == 4
SubIndexValues(config) ==
  {NaN} \cup
  (IF "standard" \in DOMAIN config
   THEN {Num(100)} \cup {Num((k * config.standard) \div 2) : k \in 0..MaxHalves}
   ELSE {Num(v) : v \in {0, 6500, 7000, 7100, 8200, 9500, 14000}})

ClassifyCalls ==
  {[fn |-> "classify_wqi", milli |-> k, den |-> d, done |-> FALSE, ret |-> ""] :
     k \in ClassifyInputs, d \in {1, 3}}

SubIndexCalls ==
  UNION {UNION {{[fn |-> "calculate_sub_index", wb |-> wb, i |-> i, value |-> v,
                  done |-> FALSE, ret |-> None] :
                   v \in SubIndexValues(SelectParameters(wb, param_tables)[i].config)} :
                i \in 1..Len(SelectParameters(wb, param_tables))} :
         wb \in WaterBodies}

InitPure ==
  /\ param_tables = [Springs |-> SPRINGS_PARAMS, Wells |-> WELLS_PARAMS, Lakes |-> LAKES_PARAMS]
  /\ water_body = "Springs"
  /\ uploaded_file = NoFile
  /\ tab1 = SingleSampleTab(FALSE, NoData, SPRINGS_PARAMS)
  /\ tab2 = BatchTab(NoFile, SPRINGS_PARAMS)
  /\ call \in ClassifyCalls \cup SubIndexCalls

CallEntry == SelectParameters(call.wb, param_tables)[call.i]

CallClassify ==
  /\ call.fn = "classify_wqi" /\ ~call.done
  /\ call' = [call EXCEPT !.done = TRUE,
                          !.ret = classify_wqi(ScoreOfMilli(call.milli, call.den))]
  /\ UNCHANGED <<param_tables, water_body, uploaded_file, tab1, tab2>>

CallSubIndex ==
  /\ call.fn = "calculate_sub_index" /\ ~call.done
  /\ call' = [call EXCEPT !.done = TRUE,
                          !.ret = calculate_sub_index(call.value, CallEntry.name,
                                                      CallEntry.config)]
  /\ UNCHANGED <<param_tables, water_body, uploaded_file, tab1, tab2>>

NextPure == CallClassify \/ CallSubIndex

SpecPure == InitPure /\ [][NextPure]_vars

\* ------------------------------------------------------------- claims
InitialTables ==
  [Springs |-> SPRINGS_PARAMS, Wells |-> WELLS_PARAMS, Lakes |-> LAKES_PARAMS]

ActiveTable == SelectParameters(water_body, InitialTables)

PolicyALabels ==
  {"Excellent water", "Good water", "Poor water", "Very poor water",
   "Unsuitable for drinking"}

NoValidData == "No valid data provided"

\* The samples the last script run scored, each with the result it showed:
\* the submitted form, and every row of the uploaded table as uploaded.
ScoredSamples ==
  (IF tab1.shown = "form" THEN {}
   ELSE {[data |-> tab1.data, wqi |-> tab1.wqi, class |-> tab1.class]})
  \cup {[data |-> uploaded_file.rows[i], wqi |-> tab2.df[i].WQI,
         class |-> tab2.df[i].Class] : i \in 1..Len(tab2.df)}

\* The entries of a table whose parameter has a present, non-missing value
\* in the sample.
Participating(data, params) ==
  {i \in 1..Len(params) :
     params[i].name \in DOMAIN data /\ data[params[i].name].kind = "num"}

\* sum + sub_index * weight of entry i when i is in S, else sum.
PlusTerm(sum, data, params, S, i) ==
  IF sum.kind = "num" /\ i \in S
  THEN ScoreAddProduct(sum,
                       calculate_sub_index(data[params[i].name], params[i].name,
                                           params[i].config),
                       params[i].config.weight)
  ELSE sum

\* The sum of sub_index * weight over the entries S of a table from entry i
\* on, as a score.
RECURSIVE WeightedSumFrom(_, _, _, _)
WeightedSumFrom(data, params, S, i) ==
  IF i > Len(params) THEN ScoreZero
  ELSE PlusTerm(WeightedSumFrom(data, params, S, i + 1), data, params, S, i)

WeightedSum(data, params, S) == WeightedSumFrom(data, params, S, 1)

\* The sum of the weights of the entries S from entry i on, in units of 10^-8.
RECURSIVE WeightTotalFrom(_, _, _)
WeightTotalFrom(params, S, i) ==
  IF i > Len(params) THEN 0
  ELSE (IF i \in S THEN params[i].config.weight ELSE 0)
       + WeightTotalFrom(params, S, i + 1)

WeightTotal(params, S) == WeightTotalFrom(params, S, 1)

\* wqi = sum / (total / 10^8).
IsWeightedAverage(wqi, sum, total) ==
  BigMulSmall(BigMul(wqi.num, BigFromInt(total)), sum.den)
    = BigMulSmall(BigMul(sum.num, BigFromInt(WeightScale)), wqi.den)

\* C1: classify_wqi gives every score exactly the label of policy A:
\* w < 50 Excellent water, 50 <= w <= 100 Good water, 100 < w <= 200 Poor
\* water, 200 < w <= 300 Very poor water, w > 300 Unsuitable for drinking.
C1_ClassifyPolicyA ==
  (call.fn = "classify_wqi" /\ call.done) =>
    LET k == call.milli
    IN /\ k < 50 * Milli => call.ret = "Excellent water"
       /\ (50 * Milli <= k /\ k <= 100 * Milli) => call.ret = "Good water"
       /\ (100 * Milli < k /\ k <= 200 * Milli) => call.ret = "Poor water"
       /\ (200 * Milli < k /\ k <= 300 * Milli) => call.ret = "Very poor water"
       /\ k > 300 * Milli => call.ret = "Unsuitable for drinking"

C1_Witness ==
  call.fn = "classify_wqi" /\ call.done /\ call.milli = 50 * Milli
    /\ call.ret = "Good water"

\* C2: a scored sample has an absent score exactly when no parameter of the
\* active table has a present, non-missing value in it, and exactly then its
\* second component is "No valid data provided"; otherwise the score is a
\* number and the second component a policy-A label.
C2_AbsentIffNoData ==
  \A s \in ScoredSamples :
    /\ (s.wqi = None) <=> (Participating(s.data, ActiveTable) = {})
    /\ (s.wqi = None) <=> (s.class = NoValidData)
    /\ s.wqi # None => (s.wqi.kind = "num" /\ s.class \in PolicyALabels)

C2_Witness ==
  \E s1, s2 \in ScoredSamples :
    /\ s1.wqi = None /\ s1.class = NoValidData
    /\ s2.wqi.kind = "num" /\ s2.wqi.num = <<>> /\ s2.class = "Excellent water"

\* C3: the score of every scored sample is the weighted average over its
\* participating parameters: sum of sub_index * weight divided by the sum of
\* the participating weights.
C3_WeightedAverage ==
  \A s \in ScoredSamples :
    s.wqi # None =>
      LET P == Participating(s.data, ActiveTable)
      IN IsWeightedAverage(s.wqi, WeightedSum(s.data, ActiveTable, P),
                           WeightTotal(ActiveTable, P))

\* C4: the score of every scored sample is the sum of sub_index * weight over
\* exactly the table parameters with a present, non-missing value, undivided.
C4_WeightedSum ==
  \A s \in ScoredSamples :
    s.wqi # None =>
      ScoreEq(s.wqi,
              WeightedSum(s.data, ActiveTable, Participating(s.data, ActiveTable)))

C4_Witness ==
  \E s \in ScoredSamples :
    LET P == Participating(s.data, ActiveTable)
    IN /\ s.wqi # None /\ s.wqi.num # <<>>
       /\ P # {} /\ Cardinality(P) < Len(ActiveTable)
       /\ \E c \in DOMAIN s.data : c \notin Names(ActiveTable)

\* C5: a sample whose score is absent is never plotted and never written to
\* a downloadable CSV, for a submitted form and for every row of a batch.
C5_NoOutputWithoutScore ==
  /\ tab1.wqi = None => (tab1.chart = <<>> /\ tab1.csv = <<>>)
  /\ \A i \in 1..Len(tab2.df) :
       tab2.df[i].WQI = None =>
         /\ \A b \in 1..Len(tab2.chart) : tab2.chart[b].x # i
         /\ \A j \in 1..Len(tab2.csv) : tab2.csv[j] # i

\* C6: the batch yields one result per uploaded row, the i-th the result of
\* calculate_wqi on the i-th row alone, and permuting the rows permutes the
\* results the same way.
C6_BatchRowWise ==
  tab2.shown = "results" =>
    LET rows == uploaded_file.rows
        n == Len(rows)
    IN /\ Len(tab2.df) = n
       /\ \A i \in 1..n :
            <<tab2.df[i].WQI, tab2.df[i].Class>> = calculate_wqi(rows[i], ActiveTable)
       /\ \A p \in Permutations(1..n) :
            LET permuted == [uploaded_file EXCEPT !.rows = [i \in 1..n |-> rows[p[i]]]]
                out == BatchTab(permuted, ActiveTable).df
            IN \A i \in 1..n :
                 out[i].WQI = tab2.df[p[i]].WQI /\ out[i].Class = tab2.df[p[i]].Class

C6_Witness ==
  /\ tab2.shown = "results" /\ Len(tab2.df) = 2
  /\ tab2.df[1].WQI # None /\ tab2.df[2].WQI # None
  /\ tab2.df[1].WQI # tab2.df[2].WQI

\* C7: a table lacking a table parameter's column is scored row by row as
\* the same table with that column present and missing in every row, and as
\* the rows with the parameter absent from the mapping.
C7_MissingColumn ==
  tab2.shown = "results" =>
    \A param \in Names(ActiveTable) \ uploaded_file.columns :
      LET n == Len(uploaded_file.rows)
          with_nan ==
            [columns |-> uploaded_file.columns \cup {param},
             rows |-> [i \in 1..n |-> uploaded_file.rows[i] @@ (param :> NaN)],
             present |-> TRUE]
          out == BatchTab(with_nan, ActiveTable).df
      IN \A i \in 1..n :
           /\ out[i].WQI = tab2.df[i].WQI /\ out[i].Class = tab2.df[i].Class
           /\ param \notin DOMAIN uploaded_file.rows[i]
           /\ <<tab2.df[i].WQI, tab2.df[i].Class>>
                = calculate_wqi(uploaded_file.rows[i], ActiveTable)

C7_Witness ==
  /\ tab2.shown = "results"
  /\ "pH" \in Names(ActiveTable) \ uploaded_file.columns
  /\ \E i \in 1..Len(tab2.df) : tab2.df[i].WQI # None

\* C8: calculate_sub_index is the linear ratio without a cap: for pH it is
\* abs((value - 7) / (high - 7)) * 100, for the others (value / standard) *
\* 100; a value at the standard gives exactly 100, one above it more than
\* 100, and pH 7 gives 0.
C8_LinearRatio ==
  (call.fn = "calculate_sub_index" /\ call.done /\ call.value.kind = "num") =>
    LET e == CallEntry
        v == call.value.v
        r == call.ret
    IN /\ r.kind = "num" /\ r.den > 0
       /\ IF e.name = "pH"
          THEN /\ r.num * Abs(e.config.high - 7 * Milli)
                    = Abs(v - 7 * Milli) * 100 * r.den
               /\ v = 7 * Milli => r.num = 0
          ELSE /\ r.num * e.config.standard = v * 100 * r.den
               /\ v = e.config.standard => (r.num = 100 /\ r.den = 1)
               /\ v > e.config.standard => r.num > 100 * r.den

C8_Witness ==
  /\ call.fn = "calculate_sub_index" /\ call.done /\ call.value.kind = "num"
  /\ CallEntry.name # "pH"
  /\ call.value.v = 2 * CallEntry.config.standard
  /\ call.ret.num = 200 /\ call.ret.den = 1

\* C9: the three tables keep their initial contents, and what each tab shows
\* is the result of scoring its current sample against the initial table of
\* the selected water body, whatever happened before.
C9_Stateless ==
  /\ param_tables = InitialTables
  /\ tab2 = BatchTab(uploaded_file, ActiveTable)
  /\ tab1.shown # "form" => tab1 = SingleSampleTab(TRUE, tab1.data, ActiveTable)

C9_Witness ==
  /\ water_body = "Lakes"
  /\ tab1.shown = "success"
  /\ tab2.shown = "results" /\ tab2.df[1].WQI # None

\* C10: over the shipped tables calculate_sub_index never fails: the entry
\* named pH is the one with low and high and no standard, every other entry
\* has a non-zero standard, and high differs from 7; the result is absent
\* only for a missing value and a number otherwise.
C10_SubIndexTotal ==
  /\ \A wb \in WaterBodies : \A i \in 1..Len(param_tables[wb]) :
       LET e == param_tables[wb][i]
       IN IF e.name = "pH"
          THEN /\ DOMAIN e.config = {"weight", "low", "high"}
               /\ e.config.high # 7 * Milli
          ELSE /\ DOMAIN e.config = {"weight", "standard"}
               /\ e.config.standard # 0
  /\ (call.fn = "calculate_sub_index" /\ call.done) =>
       /\ call.ret.kind # "error"
       /\ (call.ret = None) <=> isna(call.value)
       /\ ~isna(call.value) => call.ret.kind = "num"

C10_Witness ==
  /\ call.fn = "calculate_sub_index" /\ call.done
  /\ CallEntry.name = "pH" /\ call.value = Num(9500)
  /\ call.ret.num = 100 /\ call.ret.den = 1
====
